---- MODULE Spec2Model ----
(***************************************************************************)
(* Model of the tessellation editor of src/src/app/page.tsx: the edge      *)
(* geometry (getShapeEdges, areEdgesCompatible, canTilesSnap), the         *)
(* symmetry mirrors (createSymmetryMirrors) and the React component's      *)
(* state with one action per event handler.                                *)
(*                                                                         *)
(* Numbers.  The program computes in IEEE doubles.  The model computes in  *)
(* fixed point: a coordinate or a length is an integer count of tenths of  *)
(* a canvas unit (the catalogue's finest literal is 43.3), a unit vector   *)
(* (normal, normalised direction) is an integer count of thousandths, and  *)
(* cos/sin are ten-thousandths.  Every product, quotient and square root   *)
(* of the code is computed where the code computes it and rounded to the   *)
(* nearest representable value.                                            *)
(***************************************************************************)
EXTENDS Integers, Sequences, FiniteSets, TLC

\* ------------------------------------------------------------- numbers

\* A literal of the source, in canvas units, as tenths.
Fx(n) == 10 * n

Abs(a) == IF a < 0 THEN -a ELSE a

Max(a, b) == IF a > b THEN a ELSE b

Min(a, b) == IF a < b THEN a ELSE b

\* a / b for b > 0, rounded to the nearest integer (halves away from zero).
RoundDiv(a, b) ==
    IF a >= 0 THEN (2 * a + b) \div (2 * b)
    ELSE -((2 * (-a) + b) \div (2 * b))

RECURSIVE NewtonSqrt(_, _)
\* Newton's iteration from an upper estimate r down to floor(sqrt(n)).
NewtonSqrt(n, r) ==
    LET r2 == (r + n \div r) \div 2
    IN  IF r2 >= r THEN r ELSE NewtonSqrt(n, r2)

\* Math.sqrt(dx * dx + dy * dy), rounded to the nearest integer.
Hypot(dx, dy) ==
    LET n == dx * dx + dy * dy
    IN  IF n = 0 THEN 0
        ELSE LET r == NewtonSqrt(n, Abs(dx) + Abs(dy))
             IN  IF n - r * r > r THEN r + 1 ELSE r

\* Math.cos(deg * Math.PI / 180) in ten-thousandths, for the rotations the
\* program produces (rotateTile keeps them multiples of 45).
CosDeg(deg) ==
    CASE deg = 0 -> 10000
      [] deg = 45 -> 7071
      [] deg = 90 -> 0
      [] deg = 135 -> -7071
      [] deg = 180 -> -10000
      [] deg = 225 -> -7071
      [] deg = 270 -> 0
      [] deg = 315 -> 7071

\* Math.sin(deg * Math.PI / 180) in ten-thousandths.
SinDeg(deg) ==
    CASE deg = 0 -> 0
      [] deg = 45 -> 7071
      [] deg = 90 -> 10000
      [] deg = 135 -> 7071
      [] deg = 180 -> 0
      [] deg = 225 -> -7071
      [] deg = 270 -> -10000
      [] deg = 315 -> -7071

\* ------------------------------------------------------------- data model

ShapeType == {"triangle", "square", "hexagon", "diamond"}

SymmetryMode == {"none", "horizontal", "vertical", "radial"}

Rotations == {0, 45, 90, 135, 180, 225, 270, 315}

\* The value of an absent optional field (originalId) and of a null reference.
NoId == 0

Point(px, py) == [x |-> px, y |-> py]

\* A Tile; a primary tile has isSymmetryMirror = FALSE and originalId = NoId.
Tile(id, shape, px, py, rotation, color) ==
    [id |-> id, shape |-> shape, x |-> px, y |-> py, rotation |-> rotation,
     color |-> color, isSymmetryMirror |-> FALSE, originalId |-> NoId]

\* ------------------------------------------------------------- getShapeEdges

\* The vertex lists of the switch in getShapeEdges, in local coordinates.
LocalVertices(shape) ==
    CASE shape = "triangle" ->
           << Point(Fx(0), -Fx(30)), Point(Fx(25), Fx(15)), Point(-Fx(25), Fx(15)) >>
      [] shape = "square" ->
           << Point(-Fx(25), -Fx(25)), Point(Fx(25), -Fx(25)),
              Point(Fx(25), Fx(25)), Point(-Fx(25), Fx(25)) >>
      [] shape = "hexagon" ->
           << Point(Fx(50), 0), Point(Fx(25), 433), Point(-Fx(25), 433),
              Point(-Fx(50), 0), Point(-Fx(25), -433), Point(Fx(25), -433) >>
      [] shape = "diamond" ->
           << Point(Fx(0), -Fx(30)), Point(Fx(30), Fx(0)),
              Point(Fx(0), Fx(30)), Point(-Fx(30), Fx(0)) >>

\* transform(localX, localY): rotate by tile.rotation, translate by the centre.
Transform(tile, p) ==
    LET c == CosDeg(tile.rotation)
        s == SinDeg(tile.rotation)
    IN  Point(tile.x + RoundDiv(p.x * c - p.y * s, 10000),
              tile.y + RoundDiv(p.x * s + p.y * c, 10000))

\* MakeEdge with the test of the flip inverted (dotProduct < 0).
MakeEdgeFlipOutward(tile, start, end) ==
    LET dx == end.x - start.x
        dy == end.y - start.y
        length == Hypot(dx, dy)
        midpoint == Point(RoundDiv(start.x + end.x, 2), RoundDiv(start.y + end.y, 2))
        raw == IF length = 0 THEN Point(0, 0)
               ELSE Point(RoundDiv(dy * 1000, length), RoundDiv(-dx * 1000, length))
        dotProduct == raw.x * (tile.x - midpoint.x) + raw.y * (tile.y - midpoint.y)
        normal == IF dotProduct < 0 THEN Point(-raw.x, -raw.y) ELSE raw
    IN  [start |-> start, end |-> end, length |-> length, midpoint |-> midpoint,
         normal |-> normal, nan |-> (length = 0)]

\* The body of the loop of getShapeEdges: the edge from start to end.
\* A zero length makes the normal 0/0: the code divides without a test, and
\* the model records such a normal as the pair (0, 0) with nan = TRUE.
MakeEdge(tile, start, end) ==
    LET dx == end.x - start.x
        dy == end.y - start.y
        length == Hypot(dx, dy)
        midpoint == Point(RoundDiv(start.x + end.x, 2), RoundDiv(start.y + end.y, 2))
        raw == IF length = 0 THEN Point(0, 0)
               ELSE Point(RoundDiv(dy * 1000, length), RoundDiv(-dx * 1000, length))
        edgeToCenterX == tile.x - midpoint.x
        edgeToCenterY == tile.y - midpoint.y
        dotProduct == raw.x * edgeToCenterX + raw.y * edgeToCenterY
        normal == IF dotProduct > 0 THEN Point(-raw.x, -raw.y) ELSE raw
    IN  [start |-> start, end |-> end, length |-> length, midpoint |-> midpoint,
         normal |-> normal, nan |-> (length = 0)]

\* EdgeLoop without the edge that closes the polygon.
EdgeLoopOpen(tile, vertices) ==
    [i \in 1..(Len(vertices) - 1) |-> MakeEdge(tile, vertices[i], vertices[i + 1])]

\* The loop of getShapeEdges over the transformed vertices: one edge per
\* consecutive vertex pair, wrapping.
EdgeLoop(tile, vertices) ==
    [i \in 1..Len(vertices) |->
        MakeEdge(tile, vertices[i], vertices[(i % Len(vertices)) + 1])]

\* getShapeEdges(tile).
getShapeEdges(tile) ==
    LET local == LocalVertices(tile.shape)
    IN  EdgeLoop(tile, [i \in 1..Len(local) |-> Transform(tile, local[i])])

\* ------------------------------------------------------------- areEdgesCompatible

\* The midpoint-to-midpoint distance of two edges.
MidDistance(edge1, edge2) ==
    Hypot(edge1.midpoint.x - edge2.midpoint.x, edge1.midpoint.y - edge2.midpoint.y)

\* The normalised direction of an edge, in thousandths.
EdgeDir(edge) ==
    LET dx == edge.end.x - edge.start.x
        dy == edge.end.y - edge.start.y
        len == Hypot(dx, dy)
    IN  IF len = 0 THEN Point(0, 0)
        ELSE Point(RoundDiv(dx * 1000, len), RoundDiv(dy * 1000, len))

\* LengthGate without Math.abs.
LengthGateSigned(edge1, edge2) == edge1.length - edge2.length <= Fx(2)

\* Gate 1: lengthDiff > 2 rejects.
LengthGate(edge1, edge2) == Abs(edge1.length - edge2.length) <= Fx(2)

\* DistanceGate with a threshold of 50, a tile's width.
DistanceGateWide(edge1, edge2) == MidDistance(edge1, edge2) <= Fx(50)

\* Gate 2: distance > 40 rejects.
DistanceGate(edge1, edge2) == MidDistance(edge1, edge2) <= Fx(40)

\* NormalGate asking for normals in the same direction.
NormalGateAligned(edge1, edge2) ==
    \/ edge1.nan \/ edge2.nan
    \/ edge1.normal.x * edge2.normal.x + edge1.normal.y * edge2.normal.y >= 900000

\* Gate 3: dotProduct > -0.9 rejects (a NaN normal compares false and passes).
NormalGate(edge1, edge2) ==
    \/ edge1.nan \/ edge2.nan
    \/ edge1.normal.x * edge2.normal.x + edge1.normal.y * edge2.normal.y <= -900000

\* ParallelGate asking for exactly parallel directions.
ParallelGateExact(edge1, edge2) ==
    LET d1 == EdgeDir(edge1)
        d2 == EdgeDir(edge2)
    IN  \/ edge1.nan \/ edge2.nan
        \/ Abs(d1.x * d2.x + d1.y * d2.y) >= 999000

\* Gate 4: edgeDotProduct < 0.9 rejects (a NaN direction compares false and passes).
ParallelGate(edge1, edge2) ==
    LET d1 == EdgeDir(edge1)
        d2 == EdgeDir(edge2)
    IN  \/ edge1.nan \/ edge2.nan
        \/ Abs(d1.x * d2.x + d1.y * d2.y) >= 900000

areEdgesCompatible(edge1, edge2) ==
    /\ LengthGate(edge1, edge2)
    /\ DistanceGate(edge1, edge2)
    /\ NormalGate(edge1, edge2)
    /\ ParallelGate(edge1, edge2)

\* ------------------------------------------------------------- canTilesSnap

\* The value of a null reference (bestSnap, snapPosition, selectedTile).
Null == [null |-> TRUE]

RECURSIVE BestSnapFromLatest(_, _, _, _)
\* BestSnapFrom replacing bestSnap on an equal distance too (<=).
BestSnapFromLatest(edges1, edges2, k, bestSnap) ==
    LET n2 == Len(edges2)
        i == ((k - 1) \div n2) + 1
        j == ((k - 1) % n2) + 1
        distance == MidDistance(edges1[i], edges2[j])
        next == IF /\ areEdgesCompatible(edges1[i], edges2[j])
                   /\ (bestSnap = Null \/ distance <= bestSnap.distance)
                THEN [edge1 |-> edges1[i], edge2 |-> edges2[j], distance |-> distance,
                      i |-> i, j |-> j]
                ELSE bestSnap
    IN  IF k > Len(edges1) * n2 THEN bestSnap
        ELSE BestSnapFromLatest(edges1, edges2, k + 1, next)

RECURSIVE BestSnapFrom(_, _, _, _)
\* The nested loops of canTilesSnap from the k-th edge pair on (edge1 in the
\* outer loop, edge2 in the inner one): bestSnap after the remaining pairs.
BestSnapFrom(edges1, edges2, k, bestSnap) ==
    LET n2 == Len(edges2)
        i == ((k - 1) \div n2) + 1
        j == ((k - 1) % n2) + 1
        distance == MidDistance(edges1[i], edges2[j])
        next == IF /\ areEdgesCompatible(edges1[i], edges2[j])
                   /\ (bestSnap = Null \/ distance < bestSnap.distance)
                THEN [edge1 |-> edges1[i], edge2 |-> edges2[j], distance |-> distance,
                      i |-> i, j |-> j]
                ELSE bestSnap
    IN  IF k > Len(edges1) * n2 THEN bestSnap
        ELSE BestSnapFrom(edges1, edges2, k + 1, next)

\* BestSnap trying the first edge of tile1 only.
BestSnapFirstEdge(tile1, tile2) ==
    BestSnapFrom(SubSeq(getShapeEdges(tile1), 1, 1), getShapeEdges(tile2), 1, Null)

\* The best compatible edge pair of two tiles, or Null.
BestSnap(tile1, tile2) ==
    BestSnapFrom(getShapeEdges(tile1), getShapeEdges(tile2), 1, Null)

\* SnapResult with the offset taken from edge2 to edge1.
SnapResultReversed(tile1, bestSnap) ==
    IF bestSnap = Null THEN [canSnap |-> FALSE, snapPosition |-> Null]
    ELSE LET offsetX == bestSnap.edge1.midpoint.x - bestSnap.edge2.midpoint.x
             offsetY == bestSnap.edge1.midpoint.y - bestSnap.edge2.midpoint.y
             separationX == RoundDiv(bestSnap.edge2.normal.x * Fx(1), 1000)
             separationY == RoundDiv(bestSnap.edge2.normal.y * Fx(1), 1000)
         IN  [canSnap |-> TRUE,
              snapPosition |-> Point(tile1.x + offsetX + separationX,
                                     tile1.y + offsetY + separationY)]

\* SnapResult pushing tile1 by the separation alone, without the midpoint offset.
SnapResultSeparationOnly(tile1, bestSnap) ==
    IF bestSnap = Null THEN [canSnap |-> FALSE, snapPosition |-> Null]
    ELSE LET separationX == RoundDiv(bestSnap.edge2.normal.x * Fx(1), 1000)
             separationY == RoundDiv(bestSnap.edge2.normal.y * Fx(1), 1000)
         IN  [canSnap |-> TRUE,
              snapPosition |-> Point(tile1.x + separationX, tile1.y + separationY)]

\* What canTilesSnap returns for the best pair found: tile1 moved so that the
\* pair's midpoints meet, then pushed 1 unit along edge2's normal.
SnapResult(tile1, bestSnap) ==
    IF bestSnap = Null THEN [canSnap |-> FALSE, snapPosition |-> Null]
    ELSE LET offsetX == bestSnap.edge2.midpoint.x - bestSnap.edge1.midpoint.x
             offsetY == bestSnap.edge2.midpoint.y - bestSnap.edge1.midpoint.y
             separationX == RoundDiv(bestSnap.edge2.normal.x * Fx(1), 1000)
             separationY == RoundDiv(bestSnap.edge2.normal.y * Fx(1), 1000)
         IN  [canSnap |-> TRUE,
              snapPosition |-> Point(tile1.x + offsetX + separationX,
                                     tile1.y + offsetY + separationY)]

\* canTilesSnap(tile1, tile2).
canTilesSnap(tile1, tile2) == SnapResult(tile1, BestSnap(tile1, tile2))

\* ------------------------------------------------------------- createSymmetryMirrors

\* Mirror placing the tile off the reflected position by its id's draw.
MirrorNudged(originalTile, id, mx, my) ==
    [originalTile EXCEPT !.id = id, !.x = mx + id, !.y = my,
                         !.isSymmetryMirror = TRUE, !.originalId = originalTile.id]

\* One mirror of originalTile: the spread copy with a generated id and the
\* reflected coordinates.
Mirror(originalTile, id, mx, my) ==
    [originalTile EXCEPT !.id = id, !.x = mx, !.y = my,
                         !.isSymmetryMirror = TRUE, !.originalId = originalTile.id]

\* createSymmetryMirrors whose third radial mirror reflects x only.
createSymmetryMirrorsHalf(originalTile, mode, ids) ==
    LET centerX == Fx(300)
        centerY == Fx(300)
    IN  CASE mode = "none" -> << >>
          [] mode = "horizontal" ->
               << Mirror(originalTile, ids[1], centerX * 2 - originalTile.x, originalTile.y) >>
          [] mode = "vertical" ->
               << Mirror(originalTile, ids[1], originalTile.x, centerY * 2 - originalTile.y) >>
          [] mode = "radial" ->
               << Mirror(originalTile, ids[1], centerX * 2 - originalTile.x, originalTile.y),
                  Mirror(originalTile, ids[2], originalTile.x, centerY * 2 - originalTile.y),
                  Mirror(originalTile, ids[3], centerX * 2 - originalTile.x, originalTile.y) >>

\* createSymmetryMirrors about the former canvas centre (200, 200).
createSymmetryMirrorsOldCenter(originalTile, mode, ids) ==
    LET centerX == Fx(200)
        centerY == Fx(200)
    IN  CASE mode = "none" -> << >>
          [] mode = "horizontal" ->
               << Mirror(originalTile, ids[1], centerX * 2 - originalTile.x, originalTile.y) >>
          [] mode = "vertical" ->
               << Mirror(originalTile, ids[1], originalTile.x, centerY * 2 - originalTile.y) >>
          [] mode = "radial" ->
               << Mirror(originalTile, ids[1], centerX * 2 - originalTile.x, originalTile.y),
                  Mirror(originalTile, ids[2], originalTile.x, centerY * 2 - originalTile.y),
                  Mirror(originalTile, ids[3], centerX * 2 - originalTile.x,
                         centerY * 2 - originalTile.y) >>

\* createSymmetryMirrors(originalTile) under symmetry mode `mode`; ids is the
\* sequence of the values generateId() returns, in call order.
createSymmetryMirrors(originalTile, mode, ids) ==
    LET centerX == Fx(300)
        centerY == Fx(300)
    IN  CASE mode = "none" -> << >>
          [] mode = "horizontal" ->
               << Mirror(originalTile, ids[1], centerX * 2 - originalTile.x, originalTile.y) >>
          [] mode = "vertical" ->
               << Mirror(originalTile, ids[1], originalTile.x, centerY * 2 - originalTile.y) >>
          [] mode = "radial" ->
               << Mirror(originalTile, ids[1], centerX * 2 - originalTile.x, originalTile.y),
                  Mirror(originalTile, ids[2], originalTile.x, centerY * 2 - originalTile.y),
                  Mirror(originalTile, ids[3], centerX * 2 - originalTile.x,
                         centerY * 2 - originalTile.y) >>

\* The number of generateId() calls createSymmetryMirrors makes in a mode.
MirrorCount(mode) ==
    CASE mode = "none" -> 0
      [] mode = "horizontal" -> 1
      [] mode = "vertical" -> 1
      [] mode = "radial" -> 3

\* ------------------------------------------------------------- bounds and inputs

\* generateId() is called at most MaxIds times in a behaviour.
MaxIds == 4

\* At most MaxEvents user events (clicks, keys, pointer events) in a behaviour;
\* the animation frames the browser runs are not counted.
MaxEvents == 5

\* The strings generateId() can return.

\* The palette (two of the ten entries of COLORS).
Colors == {"#3b82f6", "#ef4444"}

\* useState<string>(COLORS[0]): the palette buttons are not pressed in the
\* editor's behaviours, so the selected colour stays the initial one.
selectedColor == "#3b82f6"

\* The shape buttons pressed in the editor's behaviours.
ShapeButtons == {"square", "hexagon"}

\* Where on a tile the pointer goes down, relative to the tile's centre.
Grabs == {Point(Fx(10), -Fx(5))}

\* Pointer positions of move events, relative to the canvas rectangle.
Pointers == {Point(Fx(360), Fx(300)), Point(Fx(580), Fx(20))}

\* ------------------------------------------------------------- state

VARIABLES
    tiles,              \* useState<Tile[]>: the collection, in insertion order
    selectedTile,       \* useState<Tile | null>: a copy of the selected tile
    dragState,          \* useState<DragState>
    symmetryMode,       \* useState<SymmetryMode>
    showSuggestions,    \* useState<boolean>
    animationFrame,     \* the callback requestAnimationFrame holds, or Null
    issued,             \* the number of generateId() calls so far
    events,             \* the number of user events so far
    call                \* a call of a pure function: its arguments, then its result

\* The component's state.
appVars == << tiles, selectedTile, dragState, symmetryMode, showSuggestions,
              animationFrame, issued, events >>

vars == << appVars, call >>

\* The drag state of no drag.
IdleDrag == [isDragging |-> FALSE, tileId |-> NoId, offsetX |-> 0, offsetY |-> 0]

\* The component as constructed.
AppInit ==
    /\ tiles = << >>
    /\ selectedTile = Null
    /\ dragState = IdleDrag
    /\ symmetryMode = "none"
    /\ showSuggestions = FALSE
    /\ animationFrame = Null
    /\ issued = 0
    /\ events = 0

Init ==
    /\ AppInit
    /\ call = Null

\* ------------------------------------------------------------- helpers

\* prev.map(f) for a function f given as the sequence of its results.
MapTiles(seq, F(_)) ==
    IF Len(seq) = 0 THEN << >> ELSE [i \in 1..Len(seq) |-> F(seq[i])]

\* Array.prototype.findIndex: the first index whose element satisfies P, or 0.
FindIndex(seq, P(_)) ==
    IF \E i \in 1..Len(seq) : P(seq[i])
    THEN CHOOSE i \in 1..Len(seq) : P(seq[i]) /\ \A j \in 1..(i - 1) : ~P(seq[j])
    ELSE 0

\* Math.max(50, Math.min(550, v)).
Clamp(v) == Max(Fx(50), Min(Fx(550), v))

\* The results of n calls of generateId(), issued calls having been made: the
\* k-th is a string Math.random() has not given before (issued + k) or, when
\* repeats, one it may have given before (a smaller number).  At most MaxIds
\* calls are made in a behaviour.
GeneratedIds(n, repeats) ==
    IF issued + n > MaxIds THEN { }
    ELSE { ids \in [1..n -> 1..(issued + n)] :
             \A k \in 1..n : IF repeats THEN ids[k] <= issued + k
                                        ELSE ids[k] = issued + k }

\* ------------------------------------------------------------- handlers

\* addShape(shapeType), with ids the results of its generateId() calls.
AddShape(shapeType, ids) ==
    LET newTile == Tile(ids[1], shapeType, Fx(300), Fx(300), 0, selectedColor)
        mirrors == createSymmetryMirrors(newTile, symmetryMode, Tail(ids))
    IN  /\ issued + Len(ids) <= MaxIds
        /\ tiles' = tiles \o << newTile >> \o mirrors
        /\ issued' = issued + Len(ids)
        /\ UNCHANGED << selectedTile, dragState, symmetryMode, showSuggestions,
                        animationFrame >>

\* rotateTile(tileId).
rotateTile(prev, tileId) ==
    MapTiles(prev, LAMBDA tile :
        IF tile.id = tileId
        THEN [tile EXCEPT !.rotation = (tile.rotation + 45) % 360]
        ELSE tile)

\* The toolbar's rotate button and the key R: rotateTile(selectedTile.id).
RotateSelected ==
    /\ selectedTile # Null
    /\ tiles' = rotateTile(tiles, selectedTile.id)
    /\ UNCHANGED << selectedTile, dragState, symmetryMode, showSuggestions,
                    animationFrame, issued >>

\* duplicateTile recording the duplicated tile as the duplicate's original.
duplicateTileLinked(prev, tileId, id) ==
    LET k == FindIndex(prev, LAMBDA t : t.id = tileId)
    IN  IF k = 0 THEN prev
        ELSE Append(prev, [prev[k] EXCEPT !.id = id, !.x = prev[k].x + Fx(60),
                                          !.y = prev[k].y + Fx(60),
                                          !.isSymmetryMirror = TRUE,
                                          !.originalId = prev[k].id])

\* duplicateTile(tileId): the tiles after the call, id the generated id.
duplicateTile(prev, tileId, id) ==
    LET k == FindIndex(prev, LAMBDA t : t.id = tileId)
    IN  IF k = 0 THEN prev
        ELSE Append(prev, [prev[k] EXCEPT !.id = id, !.x = prev[k].x + Fx(60),
                                          !.y = prev[k].y + Fx(60)])

\* The toolbar's duplicate button and the key D: duplicateTile(selectedTile.id).
DuplicateSelected(ids) ==
    /\ selectedTile # Null
    /\ \E t \in {tiles[i] : i \in 1..Len(tiles)} : t.id = selectedTile.id
    /\ issued + 1 <= MaxIds
    /\ tiles' = duplicateTile(tiles, selectedTile.id, ids[1])
    /\ issued' = issued + 1
    /\ UNCHANGED << selectedTile, dragState, symmetryMode, showSuggestions,
                    animationFrame >>

\* deleteTile(tileId): the tiles after the call.
deleteTile(prev, tileId) == SelectSeq(prev, LAMBDA t : t.id # tileId)

\* The toolbar's delete button and the keys Delete and Backspace:
\* deleteTile(selectedTile.id), which also clears the selection.
DeleteSelected ==
    /\ selectedTile # Null
    /\ tiles' = deleteTile(tiles, selectedTile.id)
    /\ selectedTile' = Null
    /\ UNCHANGED << dragState, symmetryMode, showSuggestions, animationFrame,
                    issued >>

\* The arrow-key events pressed in the editor's behaviours, as (key, shiftKey);
\* shiftKey moves by 10 instead of 1.
KeyInputs == { << "ArrowLeft", TRUE >>, << "ArrowRight", FALSE >>,
               << "ArrowUp", TRUE >>, << "ArrowDown", FALSE >> }

\* handleKeyDown for an arrow key: the new position of the selected tile.
KeyTarget(sel, key, shiftKey) ==
    LET moveDistance == IF shiftKey THEN Fx(10) ELSE Fx(1)
    IN  CASE key = "ArrowLeft" -> Point(Max(Fx(50), sel.x - moveDistance), sel.y)
          [] key = "ArrowRight" -> Point(Min(Fx(550), sel.x + moveDistance), sel.y)
          [] key = "ArrowUp" -> Point(sel.x, Max(Fx(50), sel.y - moveDistance))
          [] key = "ArrowDown" -> Point(sel.x, Min(Fx(550), sel.y + moveDistance))

\* handleKeyDown moving the tile and leaving selectedTile as it was.
HandleKeyDownTilesOnly(key, shiftKey) ==
    /\ selectedTile # Null
    /\ LET new == KeyTarget(selectedTile, key, shiftKey)
       IN  tiles' = MapTiles(tiles, LAMBDA tile :
                          IF tile.id = selectedTile.id
                          THEN [tile EXCEPT !.x = new.x, !.y = new.y]
                          ELSE tile)
    /\ UNCHANGED << selectedTile, dragState, symmetryMode, showSuggestions,
                    animationFrame, issued >>

\* handleKeyDown(e) for an arrow key.
HandleKeyDown(key, shiftKey) ==
    /\ selectedTile # Null
    /\ LET new == KeyTarget(selectedTile, key, shiftKey)
       IN  /\ tiles' = MapTiles(tiles, LAMBDA tile :
                          IF tile.id = selectedTile.id
                          THEN [tile EXCEPT !.x = new.x, !.y = new.y]
                          ELSE tile)
           /\ selectedTile' = [selectedTile EXCEPT !.x = new.x, !.y = new.y]
    /\ UNCHANGED << dragState, symmetryMode, showSuggestions, animationFrame,
                    issued >>

\* A tile's onFocus (and Enter or Space on it): setSelectedTile(tile).
SelectTile(i) ==
    /\ selectedTile' = tiles[i]
    /\ UNCHANGED << tiles, dragState, symmetryMode, showSuggestions, animationFrame,
                    issued >>

\* handleMouseDown(e, tile) and handleTouchStart(e, tile): the pointer goes
\* down at tile centre + grab.
HandleMouseDown(i, grab) ==
    LET tile == tiles[i]
        mouseX == tile.x + grab.x
        mouseY == tile.y + grab.y
    IN  /\ selectedTile' = tile
        /\ dragState' = [isDragging |-> TRUE, tileId |-> tile.id,
                         offsetX |-> mouseX - tile.x, offsetY |-> mouseY - tile.y]
        /\ UNCHANGED << tiles, symmetryMode, showSuggestions, animationFrame,
                        issued >>

\* performMove(e), from handleMouseMove and handleTouchMove: cancel the pending
\* frame and request one whose callback closes over this render's dragState and
\* createSymmetryMirrors (that is, symmetryMode).
PerformMove(pointer) ==
    /\ animationFrame' = [pointer |-> pointer, dragState |-> dragState,
                          symmetryMode |-> symmetryMode]
    /\ UNCHANGED << tiles, selectedTile, dragState, symmetryMode, showSuggestions,
                    issued >>

\* The mirror branch of the setTiles updater in performMove: what a mirror of
\* the dragged tile is replaced by.
MovedMirror(tile, boundedX, boundedY, mode) ==
    LET originalTile == [tile EXCEPT !.x = boundedX, !.y = boundedY,
                                     !.isSymmetryMirror = FALSE, !.originalId = NoId]
        mirrors == createSymmetryMirrors(originalTile, mode, << NoId, NoId, NoId >>)
        mirrorIndex == FindIndex(mirrors, LAMBDA m : m.x = tile.x /\ m.y = tile.y)
    IN  IF mirrorIndex > 0
        THEN [mirrors[mirrorIndex] EXCEPT !.id = tile.id, !.isSymmetryMirror = TRUE,
                                          !.originalId = tile.originalId]
        ELSE tile

\* MoveTiles snapping while the pointer moves: the dragged tile goes to the
\* snap position canTilesSnap gives with the first other tile it can snap to.
MoveTilesSnapping(prev, drag, boundedX, boundedY, mode) ==
    MapTiles(prev, LAMBDA tile :
        IF tile.id = drag.tileId
        THEN LET moved == [tile EXCEPT !.x = boundedX, !.y = boundedY]
                 k == FindIndex(prev, LAMBDA o :
                          o.id # drag.tileId /\ canTilesSnap(moved, o).canSnap)
             IN  IF k = 0 THEN moved
                 ELSE [tile EXCEPT !.x = canTilesSnap(moved, prev[k]).snapPosition.x,
                                   !.y = canTilesSnap(moved, prev[k]).snapPosition.y]
        ELSE tile)

\* The setTiles updater of the frame callback of performMove.
MoveTiles(prev, drag, boundedX, boundedY, mode) ==
    MapTiles(prev, LAMBDA tile :
        IF tile.id = drag.tileId
        THEN [tile EXCEPT !.x = boundedX, !.y = boundedY]
        ELSE IF tile.originalId = drag.tileId /\ tile.isSymmetryMirror
             THEN MovedMirror(tile, boundedX, boundedY, mode)
             ELSE tile)

\* The browser runs the requested frame callback of performMove (the mouse and
\* the touch branch compute the same).
AnimationFrame ==
    /\ animationFrame # Null
    /\ animationFrame' = Null
    /\ LET drag == animationFrame.dragState
           boundedX == Clamp(animationFrame.pointer.x - drag.offsetX)
           boundedY == Clamp(animationFrame.pointer.y - drag.offsetY)
       IN  IF ~drag.isDragging \/ drag.tileId = NoId
           THEN UNCHANGED << tiles, selectedTile >>
           ELSE /\ tiles' = MoveTiles(tiles, drag, boundedX, boundedY,
                                      animationFrame.symmetryMode)
                /\ selectedTile' =
                       IF selectedTile # Null /\ selectedTile.id = drag.tileId
                       THEN [selectedTile EXCEPT !.x = boundedX, !.y = boundedY]
                       ELSE selectedTile
    /\ UNCHANGED << dragState, symmetryMode, showSuggestions, issued >>

\* The body of the loop of handleTouchEnd: bestSnap after otherTile, whose
\* canTilesSnap result is snapResult.  bestSnap carries closestDistance, which
\* the code starts at Infinity (here: bestSnap = Null).
CloserSnap(draggedTile, otherTile, snapResult, bestSnap) ==
    IF ~snapResult.canSnap THEN bestSnap
    ELSE LET distance == Hypot(draggedTile.x - snapResult.snapPosition.x,
                               draggedTile.y - snapResult.snapPosition.y)
         IN  IF bestSnap = Null \/ distance < bestSnap.closestDistance
             THEN [tile |-> otherTile, snapPosition |-> snapResult.snapPosition,
                   closestDistance |-> distance]
             ELSE bestSnap

RECURSIVE ReleaseSnapFrom(_, _, _, _)
\* The loop of handleTouchEnd over otherTiles from index k on.
ReleaseSnapFrom(draggedTile, otherTiles, k, bestSnap) ==
    IF k > Len(otherTiles) THEN bestSnap
    ELSE ReleaseSnapFrom(draggedTile, otherTiles, k + 1,
                         CloserSnap(draggedTile, otherTiles[k],
                                    canTilesSnap(draggedTile, otherTiles[k]), bestSnap))

\* The snap handleTouchEnd applies for the dragged tile, or Null.
ReleaseSnap(prev, tileId) ==
    LET k == FindIndex(prev, LAMBDA t : t.id = tileId)
        otherTiles == SelectSeq(prev, LAMBDA t : t.id # tileId)
    IN  IF k = 0 THEN Null
        ELSE ReleaseSnapFrom(prev[k], otherTiles, 1, Null)

\* handleTouchEnd(), from mouse up, mouse leave and touch end.
HandleTouchEnd ==
    /\ dragState' = IdleDrag
    /\ UNCHANGED << symmetryMode, showSuggestions, animationFrame, issued >>
    /\ LET bestSnap == IF dragState.isDragging /\ dragState.tileId # NoId
                       THEN ReleaseSnap(tiles, dragState.tileId)
                       ELSE Null
       IN  IF bestSnap = Null
           THEN UNCHANGED << tiles, selectedTile >>
           ELSE LET constrainedX == Clamp(bestSnap.snapPosition.x)
                    constrainedY == Clamp(bestSnap.snapPosition.y)
                IN  /\ tiles' = MapTiles(tiles, LAMBDA tile :
                                   IF tile.id = dragState.tileId
                                   THEN [tile EXCEPT !.x = constrainedX, !.y = constrainedY]
                                   ELSE tile)
                    /\ selectedTile' =
                           IF selectedTile # Null /\ selectedTile.id = dragState.tileId
                           THEN [selectedTile EXCEPT !.x = constrainedX,
                                                     !.y = constrainedY]
                           ELSE selectedTile

\* A symmetry button: setSymmetryMode(mode).
SetSymmetryMode(mode) ==
    /\ symmetryMode' = mode
    /\ UNCHANGED << tiles, selectedTile, dragState, showSuggestions,
                    animationFrame, issued >>

\* clearAll().
ClearAll ==
    /\ tiles' = << >>
    /\ selectedTile' = Null
    /\ UNCHANGED << dragState, symmetryMode, showSuggestions, animationFrame,
                    issued >>

\* ------------------------------------------------------------- suggestions

\* The shapes suggested for an edge, by the band of its orientation
\* normalizedAngle (in [0, 180)): within 15 degrees of horizontal or of vertical,
\* square and hexagon; within 15 degrees of 60 or 120, triangle and hexagon;
\* otherwise triangle.  The bands are those of Math.atan2(dy, dx), decided on
\* |dy| / |dx| against tan 15 = 0.2679 and tan 45 = 1.  An edge on a diagonal
\* (a side of a diamond, of a square turned by 45 degrees) is at 45 or 135
\* degrees up to the rounding of the vertices and of Math.atan2, which puts it
\* inside the band around 60 or 120 (inBand) or leaves it outside.
CompatibleShapes(edge, inBand) ==
    LET ax == Abs(edge.end.x - edge.start.x)
        ay == Abs(edge.end.y - edge.start.y)
    IN  IF ay * 10000 < 2679 * ax THEN << "square", "hexagon" >>
        ELSE IF ax * 10000 < 2679 * ay THEN << "square", "hexagon" >>
        ELSE IF ay > ax \/ (ay = ax /\ inBand) THEN << "triangle", "hexagon" >>
        ELSE << "triangle" >>

\* The switch on the suggested shape: centerToEdgeDistance.
CenterToEdgeDistance(shape) ==
    CASE shape = "triangle" -> Fx(20)
      [] shape = "square" -> Fx(25)
      [] shape = "hexagon" -> 433
      [] shape = "diamond" -> Fx(30)

\* The candidate for the edgeIndex-th selected edge (from 0) of a tile.
Candidate(edge, edgeIndex, inBand) ==
    LET shapes == CompatibleShapes(edge, inBand)
        shape == shapes[(edgeIndex % Len(shapes)) + 1]
        centerToEdgeDistance == CenterToEdgeDistance(shape)
    IN  [x |-> edge.midpoint.x + RoundDiv(edge.normal.x * centerToEdgeDistance, 1000),
         y |-> edge.midpoint.y + RoundDiv(edge.normal.y * centerToEdgeDistance, 1000),
         shape |-> shape, rotation |-> 0]

\* inBounds of a candidate.
InBounds(c) == c.x > Fx(80) /\ c.x < Fx(520) /\ c.y > Fx(80) /\ c.y < Fx(520)

\* IsFree with a clearance of 40 units.
IsFreeWithin40(all, c) ==
    ~\E k \in 1..Len(all) : Hypot(all[k].x - c.x, all[k].y - c.y) < Fx(40)

\* isFree of a candidate: no tile of the collection is centred within 50 units.
IsFree(all, c) ==
    ~\E k \in 1..Len(all) : Hypot(all[k].x - c.x, all[k].y - c.y) < Fx(50)

RECURSIVE TileSuggestions(_, _, _, _)
\* The suggestions of one tile from its edgeIndex-th selected edge on; the
\* selected edges are every other edge, starting with the first.
TileSuggestions(all, edges, edgeIndex, inBand) ==
    IF 2 * edgeIndex + 1 > Len(edges) THEN << >>
    ELSE LET c == Candidate(edges[2 * edgeIndex + 1], edgeIndex, inBand)
         IN  (IF InBounds(c) /\ IsFree(all, c) THEN << c >> ELSE << >>)
             \o TileSuggestions(all, edges, edgeIndex + 1, inBand)

\* Whether one of the edges lies on a diagonal (|dx| = |dy|).
HasDiagonalEdge(edges) ==
    \E k \in 1..Len(edges) :
        Abs(edges[k].end.x - edges[k].start.x) = Abs(edges[k].end.y - edges[k].start.y)

\* The ways the rounding can fall for a collection: the sets of its tiles with
\* an edge on a diagonal whose diagonal edges come out inside the band.
Roundings(all) ==
    SUBSET { t \in { all[i] : i \in 1..Len(all) } : HasDiagonalEdge(getShapeEdges(t)) }

RECURSIVE SuggestionsFromEvery(_, _, _)
\* SuggestionsFrom taking mirror tiles as sources too.
SuggestionsFromEvery(all, k, rounding) ==
    IF k > Len(all) THEN << >>
    ELSE TileSuggestions(all, getShapeEdges(all[k]), 0, all[k] \in rounding)
         \o SuggestionsFromEvery(all, k + 1, rounding)

RECURSIVE SuggestionsFrom(_, _, _)
\* The forEach over the tiles from index k on, mirror tiles skipped.
SuggestionsFrom(all, k, rounding) ==
    IF k > Len(all) THEN << >>
    ELSE (IF all[k].isSymmetryMirror THEN << >>
          ELSE TileSuggestions(all, getShapeEdges(all[k]), 0, all[k] \in rounding))
         \o SuggestionsFrom(all, k + 1, rounding)

\* The useMemo `suggestions`, the rounding falling as in rounding.
Suggestions(all, show, rounding) ==
    IF ~show \/ Len(all) = 0 THEN << >> ELSE SuggestionsFrom(all, 1, rounding)

RECURSIVE FillTiles(_, _, _, _)
\* newTiles of fillPattern from the k-th suggestion on: each suggestion's tile,
\* then its mirrors, ids being the results of the generateId() calls in order.
FillTiles(points, k, mode, ids) ==
    IF k > Len(points) THEN << >>
    ELSE LET per == 1 + MirrorCount(mode)
             newTile == Tile(ids[1], points[k].shape, points[k].x, points[k].y,
                             points[k].rotation, selectedColor)
             mirrors == createSymmetryMirrors(newTile, mode, SubSeq(ids, 2, per))
         IN  << newTile >> \o mirrors
             \o FillTiles(points, k + 1, mode, SubSeq(ids, per + 1, Len(ids)))

\* The suggestions button: setShowSuggestions(!showSuggestions).
ToggleSuggestions ==
    /\ showSuggestions' = ~showSuggestions
    /\ UNCHANGED << tiles, selectedTile, dragState, symmetryMode, animationFrame,
                    issued >>

\* fillPattern(), from the button shown while there are suggestions; ids are
\* the results of its generateId() calls.
FillPattern(repeats) ==
    /\ showSuggestions
    /\ \E rounding \in Roundings(tiles) :
         LET points == Suggestions(tiles, showSuggestions, rounding)
             n == Len(points) * (1 + MirrorCount(symmetryMode))
         IN  /\ Len(points) > 0
             /\ issued + n <= MaxIds
             /\ \E ids \in GeneratedIds(n, repeats) :
                  tiles' = tiles \o FillTiles(points, 1, symmetryMode, ids)
             /\ issued' = issued + n
    /\ showSuggestions' = FALSE
    /\ UNCHANGED << selectedTile, dragState, symmetryMode, animationFrame >>

\* ------------------------------------------------------------- specifications

\* One handler run for a user event; the events are counted up to MaxEvents.
UserEvent(Handler) ==
    /\ events < MaxEvents
    /\ events' = events + 1
    /\ Handler
    /\ UNCHANGED call

\* A frame the browser runs between two events.
Frame ==
    /\ AnimationFrame
    /\ UNCHANGED <<events, call>>

\* The editor: user events, and the frames the browser runs in between.
\* repeats: whether generateId() may return a string it returned before.
Editor(repeats) ==
    \/ \E shapeType \in ShapeButtons :
         \E ids \in GeneratedIds(1 + MirrorCount(symmetryMode), repeats) :
           UserEvent(AddShape(shapeType, ids))
    \/ UserEvent(RotateSelected)
    \/ \E ids \in GeneratedIds(1, repeats) : UserEvent(DuplicateSelected(ids))
    \/ UserEvent(DeleteSelected)
    \/ \E input \in KeyInputs : UserEvent(HandleKeyDown(input[1], input[2]))
    \/ \E i \in 1..Len(tiles) : UserEvent(SelectTile(i))
    \/ \E i \in 1..Len(tiles), grab \in Grabs : UserEvent(HandleMouseDown(i, grab))
    \/ \E pointer \in Pointers : UserEvent(PerformMove(pointer))
    \/ UserEvent(HandleTouchEnd)
    \/ \E mode \in SymmetryMode : UserEvent(SetSymmetryMode(mode))
    \/ UserEvent(ToggleSuggestions)
    \/ UserEvent(FillPattern(repeats))
    \/ UserEvent(ClearAll)
    \/ Frame

\* The editor as written: Math.random() may repeat.
Next == Editor(TRUE)

Spec == Init /\ [][Next]_vars

\* The editor in the behaviours where no generateId() result repeats.
NextDistinct == Editor(FALSE)

SpecDistinct == Init /\ [][NextDistinct]_vars

\* ------------------------------------------------------------- the geometry, called

\* The moving tile is offset from the stationary one by multiples of 30 units,
\* up to GeomSpan of them, on each axis.
GeomSpan == 2

Offsets == { Fx(30) * k : k \in (-GeomSpan)..GeomSpan }

\* The stationary tiles (tile2 of canTilesSnap).
StationaryTiles ==
    { Tile(2, shape, Fx(300), Fx(300), rotation, selectedColor) :
        shape \in ShapeType, rotation \in {0, 45} }

\* The moving tiles (tile1 of canTilesSnap).
MovingTiles ==
    { Tile(1, shape, Fx(300) + dx, Fx(300) + dy, rotation, selectedColor) :
        shape \in ShapeType, rotation \in {0, 45}, dx \in Offsets, dy \in Offsets }

\* Tiles of every shape and rotation, at the origin, at the canvas centre and
\* at a position off the grid.
LoneTiles ==
    { Tile(1, shape, p.x, p.y, rotation, selectedColor) :
        shape \in ShapeType, rotation \in Rotations,
        p \in {Point(0, 0), Point(Fx(300), Fx(300)), Point(1234, 4321)} }

\* Unrotated squares on the horizontal line through (300, 300), to the right
\* of it by multiples of 10 units.
RowSquares ==
    { Tile(2, "square", Fx(300) + Fx(10) * k, Fx(300), 0, selectedColor) :
        k \in 1..(5 * GeomSpan) }

\* The argument pairs: a moving and a stationary tile, one tile twice, or the
\* unrotated square at (300, 300) and a square of its row.
GeometryInputs ==
    { [op |-> "input", tile1 |-> a, tile2 |-> b] : a \in MovingTiles, b \in StationaryTiles }
    \cup { [op |-> "input", tile1 |-> a, tile2 |-> a] : a \in LoneTiles }
    \cup { [op |-> "input",
            tile1 |-> Tile(1, "square", Fx(300), Fx(300), 0, selectedColor),
            tile2 |-> b] : b \in RowSquares }

\* The vertices transform returns for an unrotated hexagon so far to the right
\* that the doubles around tile.x are 64 apart (tile.x = 4e17): tile.x + 25
\* and tile.x - 25 round to tile.x, tile.x + 50 to tile.x + 64.  Vertices 2 and
\* 3 coincide, and so do 5 and 6.  The x of the model is the x of the code less
\* a fixed multiple of 64.
RoundedHexagon(tile) ==
    << Point(tile.x + Fx(64), tile.y), Point(tile.x, tile.y + 433),
       Point(tile.x, tile.y + 433), Point(tile.x - Fx(64), tile.y),
       Point(tile.x, tile.y - 433), Point(tile.x, tile.y - 433) >>

\* The vertices transform returns for an unrotated square so far out on both
\* axes that the doubles are 128 apart (1e18): all four are the centre.
CollapsedSquare(tile) ==
    [i \in 1..4 |-> Point(tile.x, tile.y)]

\* The vertex lists of tiles too far out for the model's coordinates.
FarInputs ==
    { [op |-> "vertices", tile1 |-> t, vertices |-> RoundedHexagon(t)] :
        t \in { Tile(1, "hexagon", Fx(64) * k, Fx(300), 0, selectedColor) :
                   k \in 1..GeomSpan } }
    \cup { [op |-> "vertices", tile1 |-> t, vertices |-> CollapsedSquare(t)] :
             t \in { Tile(1, "square", Fx(128) * k, Fx(128) * k, 0, selectedColor) :
                        k \in 1..GeomSpan } }

GeometryInit ==
    /\ AppInit
    /\ call \in GeometryInputs \cup FarInputs

\* getShapeEdges(tile1).
CallGetShapeEdges ==
    /\ call.op = "input"
    /\ UNCHANGED appVars
    /\ call' = [op |-> "getShapeEdges", tile1 |-> call.tile1, tile2 |-> call.tile2,
                result |-> getShapeEdges(call.tile1)]

\* areEdgesCompatible(edge1, edge2) for every edge1 of tile1 and edge2 of tile2,
\* the calls the loops of canTilesSnap make: result[i][j] for the i-th and j-th.
CallAreEdgesCompatible ==
    /\ call.op = "input"
    /\ UNCHANGED appVars
    /\ LET edges1 == getShapeEdges(call.tile1)
           edges2 == getShapeEdges(call.tile2)
       IN  call' = [op |-> "areEdgesCompatible", tile1 |-> call.tile1,
                    tile2 |-> call.tile2,
                    result |-> [i \in 1..Len(edges1) |->
                                  [j \in 1..Len(edges2) |->
                                     areEdgesCompatible(edges1[i], edges2[j])]]]

\* canTilesSnap(tile1, tile2).
CallCanTilesSnap ==
    /\ call.op = "input"
    /\ UNCHANGED appVars
    /\ call' = [op |-> "canTilesSnap", tile1 |-> call.tile1, tile2 |-> call.tile2,
                result |-> canTilesSnap(call.tile1, call.tile2)]

\* getShapeEdges(tile1) from its loop on, for the vertices of a tile far out.
CallEdgeLoop ==
    /\ call.op = "vertices"
    /\ UNCHANGED appVars
    /\ call' = [op |-> "edgeLoop", tile1 |-> call.tile1, vertices |-> call.vertices,
                result |-> EdgeLoop(call.tile1, call.vertices)]

\* areEdgesCompatible(edge1, edge2) for every two edges of a tile far out:
\* result[i][j] for the i-th and the j-th.
CallAreEdgesCompatibleFar ==
    /\ call.op = "vertices"
    /\ UNCHANGED appVars
    /\ LET edges == EdgeLoop(call.tile1, call.vertices)
       IN  call' = [op |-> "areEdgesCompatibleFar", tile1 |-> call.tile1,
                    vertices |-> call.vertices,
                    result |-> [i \in 1..Len(edges) |->
                                  [j \in 1..Len(edges) |->
                                     areEdgesCompatible(edges[i], edges[j])]]]

GeometryNext ==
    \/ CallEdgeLoop
    \/ CallAreEdgesCompatibleFar
    \/ CallGetShapeEdges
    \/ CallAreEdgesCompatible
    \/ CallCanTilesSnap

\* The pure geometry functions applied to bounded arguments.
SpecGeometry == GeometryInit /\ [][GeometryNext]_vars

\* ------------------------------------------------------------- the release, called

\* The offsets of the neighbours along the dragged tile's sides: multiples of
\* 5 units, up to GeomSpan of them either way.
Slides == { Fx(5) * k : k \in (-GeomSpan)..GeomSpan }

\* The collections at a release: the dragged square at (300, 300), a square to
\* its right and a square below it, each slid along the side it touches, in
\* every order, with the ids generateId() may have given (Math.random() may
\* repeat).
ReleaseTiles ==
    UNION { { seq \in [1..3 -> {dragged, right, below}] :
                { seq[i] : i \in 1..3 } = {dragged, right, below} } :
            dragged \in { Tile(1, "square", Fx(300), Fx(300), 0, selectedColor) },
            right \in { Tile(id, "square", Fx(350), Fx(300) + a, 0, selectedColor) :
                          id \in 1..MaxIds, a \in Slides },
            below \in { Tile(id, "square", Fx(300) + b, Fx(350), 0, selectedColor) :
                          id \in 1..MaxIds, b \in Slides } }

\* A drag of the tile with id 1 under way (handleMouseDown of that tile, the
\* pointer at its centre), in a collection of ReleaseTiles.
ReleaseInit ==
    /\ tiles \in ReleaseTiles
    /\ selectedTile = tiles[FindIndex(tiles, LAMBDA t : t.id = 1)]
    /\ dragState = [isDragging |-> TRUE, tileId |-> 1, offsetX |-> 0, offsetY |-> 0]
    /\ symmetryMode = "none"
    /\ showSuggestions = FALSE
    /\ animationFrame = Null
    /\ issued = MaxIds
    /\ events = 0
    /\ call = Null

\* The pointer goes up.
ReleaseNext == UserEvent(HandleTouchEnd)

\* handleTouchEnd applied to bounded collections.
SpecRelease == ReleaseInit /\ [][ReleaseNext]_vars

\* ------------------------------------------------------------- the mirrors, called

\* Math.random() gives one of MaxDraws values.
MaxDraws == 2

\* The results of n calls of generateId() as written: Math.random() may give
\* any string, one given before included.
AnyIds(n) == [1..n -> 1..MaxDraws]

\* The primary tiles createSymmetryMirrors is called with.
PrimaryTiles ==
    { Tile(1, shape, p.x, p.y, rotation, color) :
        shape \in ShapeType, rotation \in {0, 45}, color \in Colors,
        p \in {Point(Fx(250), Fx(250)), Point(Fx(300), Fx(300)),
               Point(Fx(50), Fx(550)), Point(3510, 3005)} }

MirrorInputs ==
    { [op |-> "input", tile1 |-> t, mode |-> m] : t \in PrimaryTiles, m \in SymmetryMode }

MirrorInit ==
    /\ AppInit
    /\ call \in MirrorInputs

\* createSymmetryMirrors(tile1) while symmetryMode is call.mode.
CallCreateSymmetryMirrors ==
    /\ call.op = "input"
    /\ UNCHANGED appVars
    /\ \E ids \in AnyIds(MirrorCount(call.mode)) :
         call' = [op |-> "createSymmetryMirrors", tile1 |-> call.tile1,
                  mode |-> call.mode,
                  result |-> createSymmetryMirrors(call.tile1, call.mode, ids)]

\* createSymmetryMirrors(tile1) a second time, same tile and mode.
CallCreateSymmetryMirrorsAgain ==
    /\ call.op = "createSymmetryMirrors"
    /\ UNCHANGED appVars
    /\ \E ids \in AnyIds(MirrorCount(call.mode)) :
         call' = [op |-> "createSymmetryMirrorsAgain", tile1 |-> call.tile1,
                  mode |-> call.mode, result |-> call.result,
                  again |-> createSymmetryMirrors(call.tile1, call.mode, ids)]

MirrorNext ==
    \/ CallCreateSymmetryMirrors
    \/ CallCreateSymmetryMirrorsAgain

\* createSymmetryMirrors applied to bounded arguments.
SpecMirrors == MirrorInit /\ [][MirrorNext]_vars

\* ------------------------------------------------------------- claims on the editor

\* The positions the symmetry rule of mode gives for a primary at (x, y), about
\* the centre (300, 300).
RulePositions(mode, primary) ==
    CASE mode = "horizontal" -> { Point(Fx(600) - primary.x, primary.y) }
      [] mode = "vertical" -> { Point(primary.x, Fx(600) - primary.y) }
      [] mode = "radial" -> { Point(Fx(600) - primary.x, primary.y),
                              Point(primary.x, Fx(600) - primary.y),
                              Point(Fx(600) - primary.x, Fx(600) - primary.y) }
      [] OTHER -> { }

\* C1 (mirrors follow the primary): while a symmetry mode is active, a step
\* that moves a primary tile (a drag frame, an arrow key, a snap on release)
\* leaves every mirror whose originalId is that primary at a position the
\* active rule gives for the primary's new position.
C1_MirrorsFollow ==
    [][\A i \in 1..Len(tiles) :
         ( /\ symmetryMode # "none"
           /\ symmetryMode' = symmetryMode
           /\ i <= Len(tiles')
           /\ tiles'[i].id = tiles[i].id
           /\ ~tiles[i].isSymmetryMirror
           /\ Point(tiles'[i].x, tiles'[i].y) # Point(tiles[i].x, tiles[i].y) )
         => \A j \in 1..Len(tiles') :
              (tiles'[j].isSymmetryMirror /\ tiles'[j].originalId = tiles[i].id)
              => Point(tiles'[j].x, tiles'[j].y) \in RulePositions(symmetryMode, tiles'[i])]_vars

\* The clamped snap positions canTilesSnap gives for the tile draggedTile with
\* the tiles of all whose id is not its id.
SnapCandidates(all, draggedTile) ==
    { Point(Clamp(canTilesSnap(draggedTile, all[k]).snapPosition.x),
            Clamp(canTilesSnap(draggedTile, all[k]).snapPosition.y)) :
        k \in { k \in 1..Len(all) : /\ all[k].id # draggedTile.id
                                    /\ canTilesSnap(draggedTile, all[k]).canSnap } }

\* C13 (snapping only at release): the frame of a pointer move made during a
\* drag puts the dragged tile at the pointer less the grab offset, clamped to
\* [50, 550] on each axis, and nowhere else; a release ends with the drag
\* state idle, and with an active drag it puts the dragged tile at a snap
\* position canTilesSnap gives with another tile when there is one, and leaves
\* the tiles as they are when there is none.
C13_SnapOnlyAtRelease ==
    [][ /\ ( /\ Frame
             /\ animationFrame.dragState.isDragging
             /\ animationFrame.dragState.tileId # NoId ) =>
               \A i \in 1..Len(tiles) :
                   tiles[i].id = animationFrame.dragState.tileId =>
                     /\ tiles'[i].x = Clamp(animationFrame.pointer.x
                                            - animationFrame.dragState.offsetX)
                     /\ tiles'[i].y = Clamp(animationFrame.pointer.y
                                            - animationFrame.dragState.offsetY)
        /\ UserEvent(HandleTouchEnd) =>
               /\ dragState' = IdleDrag
               /\ LET k == FindIndex(tiles, LAMBDA t : t.id = dragState.tileId)
                  IN  IF dragState.isDragging /\ dragState.tileId # NoId /\ k > 0
                         /\ SnapCandidates(tiles, tiles[k]) # { }
                      THEN /\ Point(tiles'[k].x, tiles'[k].y)
                                \in SnapCandidates(tiles, tiles[k])
                           /\ \A j \in 1..Len(tiles) :
                                tiles[j].id # dragState.tileId => tiles'[j] = tiles[j]
                      ELSE tiles' = tiles ]_vars

\* C13's case: a square dragged to (350, 305) beside the square at (300, 300)
\* and released: it has snapped to (351, 300) and the drag state is idle.
C13_Witness ==
    /\ Len(tiles) = 2
    /\ dragState = IdleDrag
    /\ animationFrame = Null
    /\ tiles[1].shape = "square" /\ tiles[1].x = Fx(300) /\ tiles[1].y = Fx(300)
    /\ tiles[2].shape = "square" /\ tiles[2].x = Fx(351) /\ tiles[2].y = Fx(300)

\* The primary tiles of a collection, in order, and its mirror tiles.
Primaries(all) == SelectSeq(all, LAMBDA t : ~t.isSymmetryMirror)

MirrorTiles(all) == { all[i] : i \in { i \in 1..Len(all) : all[i].isSymmetryMirror } }

\* The suggestions shown for a collection while the flag is on.
SuggestionSet(all, rounding) ==
    LET points == Suggestions(all, TRUE, rounding)
    IN  { points[i] : i \in 1..Len(points) }

\* The suggestion list is empty when the collection is empty or all mirrors,
\* and when the flag is off.
NoSourceNoSuggestion ==
    (Len(tiles) = 0 \/ Len(Primaries(tiles)) = 0 \/ ~showSuggestions)
        => \A rounding \in Roundings(tiles) :
             Suggestions(tiles, showSuggestions, rounding) = << >>

\* C15 as stated (suggestions come only from non-mirror tiles): the list is
\* empty when the collection is empty or all mirrors or the flag is off, and a
\* step that adds or removes mirror tiles only adds no suggestion.
C15_MirrorsAddNoSuggestion ==
    /\ []NoSourceNoSuggestion
    /\ [][ ( /\ Len(tiles') # Len(tiles)
             /\ Primaries(tiles') = Primaries(tiles) )
           => \A rounding \in Roundings(tiles \o tiles') :
                SuggestionSet(tiles', rounding) \subseteq SuggestionSet(tiles, rounding) ]_vars

\* C15 amended: the list is empty when the collection is empty or all mirrors
\* or the flag is off; a step that adds mirror tiles only adds no suggestion;
\* a step that removes mirror tiles only adds no suggestion but those a removed
\* mirror was within 50 units of.
C15_MirrorsOnlyOccupy ==
    /\ []NoSourceNoSuggestion
    /\ [][ ( /\ Len(tiles') # Len(tiles)
             /\ Primaries(tiles') = Primaries(tiles) )
           => \A rounding \in Roundings(tiles \o tiles') :
                \A s \in SuggestionSet(tiles', rounding) \ SuggestionSet(tiles, rounding) :
                    \E m \in MirrorTiles(tiles) \ MirrorTiles(tiles') :
                        Hypot(m.x - s.x, m.y - s.y) < Fx(50) ]_vars

\* C15's case: a mirror stands within 50 units of a point the primaries
\* suggest, which is not suggested while the mirror is there.
C15_Witness ==
    \E s \in SuggestionSet(Primaries(tiles), { }) :
        /\ s \notin SuggestionSet(tiles, { })
        /\ \E m \in MirrorTiles(tiles) : Hypot(m.x - s.x, m.y - s.y) < Fx(50)
        /\ \A t \in { tiles[i] : i \in 1..Len(tiles) } \ MirrorTiles(tiles) :
              Hypot(t.x - s.x, t.y - s.y) >= Fx(50)

\* The candidates of a collection: one for every other edge of every tile that
\* is not a mirror.
AllCandidates(all, rounding) ==
    UNION { { Candidate(getShapeEdges(all[i])[2 * e + 1], e, all[i] \in rounding) :
                e \in 0..((Len(getShapeEdges(all[i])) - 1) \div 2) } :
            i \in { i \in 1..Len(all) : ~all[i].isSymmetryMirror } }

\* The candidate is strictly inside the working bounds.
InsideBounds(c) == Fx(80) < c.x /\ c.x < Fx(520) /\ Fx(80) < c.y /\ c.y < Fx(520)

\* No tile of the collection, whichever, is centred less than 50 units from
\* the candidate.
Clear(all, c) == \A i \in 1..Len(all) : Hypot(all[i].x - c.x, all[i].y - c.y) >= Fx(50)

\* C22 (suggestions in bounds and free): every suggestion shown lies strictly
\* inside 80 < x < 520, 80 < y < 520 and has no tile of the collection, mirror
\* or source, centred within 50 units of it; the suggestions shown are all the
\* candidates that pass both tests, a failing candidate dropping no other.
C22_SuggestionsInBoundsAndFree ==
    showSuggestions =>
        \A rounding \in Roundings(tiles) :
            SuggestionSet(tiles, rounding)
                = { c \in AllCandidates(tiles, rounding) :
                      InsideBounds(c) /\ Clear(tiles, c) }

\* C22's case: of the candidates of the tiles shown, one is suggested and one
\* is dropped for a tile within 50 units of it.
C22_Witness ==
    /\ showSuggestions
    /\ \E rounding \in Roundings(tiles) :
         /\ SuggestionSet(tiles, rounding) # { }
         /\ \E c \in AllCandidates(tiles, rounding) :
              InsideBounds(c) /\ ~Clear(tiles, c)

\* The tiles after eight successive rotateTile(tileId) calls.
EightRotations(prev, tileId) ==
    LET R(t) == rotateTile(t, tileId)
    IN  R(R(R(R(R(R(R(R(prev))))))))

\* The tile the rotate button acts on: the selected one, found by its id.
RotateTarget == FindIndex(tiles, LAMBDA t : t.id = selectedTile.id)

\* C16 (rotation in 45-degree increments): a rotate of the selected tile
\* replaces that tile's rotation r by (r + 45) mod 360 and changes no other
\* tile and no other field; every tile's rotation is one of 0, 45, ..., 315 in
\* every reachable state; eight successive rotateTile calls on a tile give
\* back the tiles as they were.
C16_RotationIncrements ==
    /\ [](\A i \in 1..Len(tiles) :
            /\ tiles[i].rotation \in Rotations
            /\ EightRotations(tiles, tiles[i].id) = tiles)
    /\ [][ UserEvent(RotateSelected) =>
             /\ Len(tiles') = Len(tiles)
             /\ \A i \in 1..Len(tiles) :
                  tiles'[i] = IF i = RotateTarget
                              THEN [tiles[i] EXCEPT
                                      !.rotation = (tiles[i].rotation + 45) % 360]
                              ELSE tiles[i]
             /\ UNCHANGED << selectedTile, dragState, symmetryMode,
                             showSuggestions >> ]_vars

\* The tiles of all, other than the k-th, the k-th can snap to.
ReleaseCandidates(all, k) ==
    { j \in (1..Len(all)) \ {k} : canTilesSnap(all[k], all[j]).canSnap }

\* The distance from the k-th tile's centre to its snap position with the j-th.
SnapDistance(all, k, j) ==
    Hypot(all[k].x - canTilesSnap(all[k], all[j]).snapPosition.x,
          all[k].y - canTilesSnap(all[k], all[j]).snapPosition.y)

\* The candidate nearest to the k-th tile, the earliest of the nearest ones.
NearestCandidate(all, k) ==
    CHOOSE j \in ReleaseCandidates(all, k) :
        \A i \in ReleaseCandidates(all, k) :
            \/ SnapDistance(all, k, j) < SnapDistance(all, k, i)
            \/ SnapDistance(all, k, j) = SnapDistance(all, k, i) /\ j <= i

\* The tile a release acts on: the dragged one, found by its id.
DraggedIndex == FindIndex(tiles, LAMBDA t : t.id = dragState.tileId)

\* C19 (global nearest at release): a release of a dragged tile that can snap
\* to more than one other tile puts it at the snap position (clamped to
\* [50, 550]) of the candidate whose snap position is nearest to its centre,
\* the earliest tile of the collection among equally near ones; the candidates
\* are all the tiles but the dragged one itself.
C19_GlobalNearestAtRelease ==
    [][ ( /\ UserEvent(HandleTouchEnd)
          /\ dragState.isDragging
          /\ DraggedIndex > 0
          /\ Cardinality(ReleaseCandidates(tiles, DraggedIndex)) > 1 ) =>
            LET k == DraggedIndex
                snap == canTilesSnap(tiles[k], tiles[NearestCandidate(tiles, k)])
            IN  /\ tiles'[k].x = Clamp(snap.snapPosition.x)
                /\ tiles'[k].y = Clamp(snap.snapPosition.y) ]_vars

\* C24 (a release ends the drag): once a release has been handled and no drag
\* is under way, a frame callback requested by a pointer move changes no tile:
\* every tile stays where the release left it.
C24_ReleaseEndsDrag ==
    [][ (Frame /\ ~dragState.isDragging) => tiles' = tiles ]_vars

\* C25 (tiles stay on the canvas): in every state every tile of the collection
\* has 50 <= x <= 550 and 50 <= y <= 550.
C25_TilesOnCanvas ==
    \A i \in 1..Len(tiles) :
        /\ Fx(50) <= tiles[i].x /\ tiles[i].x <= Fx(550)
        /\ Fx(50) <= tiles[i].y /\ tiles[i].y <= Fx(550)

\* The collection holds a tile with the id, the x and the y of selectedTile.
SelectionConsistent ==
    selectedTile # Null =>
        \E i \in 1..Len(tiles) :
            /\ tiles[i].id = selectedTile.id
            /\ tiles[i].x = selectedTile.x
            /\ tiles[i].y = selectedTile.y

\* C27 (selection consistency): in every reachable state, if selectedTile is not
\* null the collection contains a tile with the id, the x and the y of
\* selectedTile; and deleting the selected tile or clearing the canvas sets
\* selectedTile to null.
C27_SelectionConsistency ==
    /\ []SelectionConsistent
    /\ [][ (DeleteSelected \/ ClearAll) => selectedTile' = Null ]_vars

\* C27's case: the selected tile has left (300, 300), where another tile still
\* is, and no drag or frame is under way.
C27_Witness ==
    /\ selectedTile # Null
    /\ ~dragState.isDragging
    /\ animationFrame = Null
    /\ Point(selectedTile.x, selectedTile.y) # Point(Fx(300), Fx(300))
    /\ \E j \in 1..Len(tiles) :
          /\ tiles[j].id # selectedTile.id
          /\ Point(tiles[j].x, tiles[j].y) = Point(Fx(300), Fx(300))

\* The tile a frame callback of performMove acts on: the dragged one of the
\* dragState it closed over, found by its id.
FrameDraggedIndex ==
    FindIndex(tiles, LAMBDA t : t.id = animationFrame.dragState.tileId)

\* The drag state says that no drag is active.
NoDrag(drag) == ~drag.isDragging \/ drag.tileId = NoId

\* C28 (moves and releases touch the dragged tile only): a pointer move or a
\* release handled while no drag is active (isDragging = false or tileId = null)
\* leaves the tiles and the selected tile unchanged, the move both when it is
\* handled and when its frame callback runs; a pointer move during a drag
\* changes the position of no tile but the dragged tile and the mirrors whose
\* originalId is the dragged tile's id.
C28_MovesOnlyTheDraggedTile ==
    [][ /\ (NoDrag(dragState) /\ UserEvent(HandleTouchEnd))
              => UNCHANGED << tiles, selectedTile >>
        /\ (\E pointer \in Pointers : UserEvent(PerformMove(pointer)))
              => UNCHANGED << tiles, selectedTile >>
        /\ (Frame /\ NoDrag(animationFrame.dragState))
              => UNCHANGED << tiles, selectedTile >>
        /\ (Frame /\ ~NoDrag(animationFrame.dragState))
              => /\ Len(tiles') = Len(tiles)
                 /\ \A i \in 1..Len(tiles) :
                      \/ Point(tiles'[i].x, tiles'[i].y) = Point(tiles[i].x, tiles[i].y)
                      \/ i = FrameDraggedIndex
                      \/ /\ tiles[i].isSymmetryMirror
                         /\ tiles[i].originalId = animationFrame.dragState.tileId ]_vars

\* ------------------------------------------------------------- claims on the geometry

\* The tile a call's tile1 becomes when moved to the returned snap position.
SnappedTile1 ==
    [call.tile1 EXCEPT !.x = call.result.snapPosition.x,
                       !.y = call.result.snapPosition.y]

\* C2 (snap alignment): when canTilesSnap(A, B) returns canSnap = true with
\* position P, A moved to P has an edge e1 and B an edge e2 whose midpoints are
\* at most 1.5 units apart and for which areEdgesCompatible(e1, e2) is true.
C2_SnapAlignment ==
    (call.op = "canTilesSnap" /\ call.result.canSnap) =>
        LET edges1 == getShapeEdges(SnappedTile1)
            edges2 == getShapeEdges(call.tile2)
        IN  \E i \in 1..Len(edges1), j \in 1..Len(edges2) :
                /\ MidDistance(edges1[i], edges2[j]) <= 15
                /\ areEdgesCompatible(edges1[i], edges2[j])

\* C2's case: a hexagon that snaps to a rotated square, and moves to do so.
C2_Witness ==
    /\ call.op = "canTilesSnap"
    /\ call.result.canSnap
    /\ call.tile1.shape = "hexagon"
    /\ call.tile2.shape = "square" /\ call.tile2.rotation = 45
    /\ call.result.snapPosition # Point(call.tile1.x, call.tile1.y)

\* C3 (compatibility symmetry): areEdgesCompatible(a, b) returns what
\* areEdgesCompatible(b, a) returns, for every edge a of one tile and b of another.
C3_CompatibilitySymmetry ==
    call.op = "areEdgesCompatible" =>
        LET edges1 == getShapeEdges(call.tile1)
            edges2 == getShapeEdges(call.tile2)
        IN  \A i \in 1..Len(edges1), j \in 1..Len(edges2) :
                call.result[i][j] = areEdgesCompatible(edges2[j], edges1[i])

\* C3's case: a triangle and a square, a side of the one compatible with a
\* side of the other (their lengths differ by 1.5) and another pair not.
C3_Witness ==
    /\ call.op = "areEdgesCompatible"
    /\ call.tile1.shape = "triangle" /\ call.tile2.shape = "square"
    /\ \E i \in 1..3, j \in 1..4 : call.result[i][j]
    /\ \E i \in 1..3, j \in 1..4 : ~call.result[i][j]

\* C11 (snap if and only if a compatible pair): canTilesSnap(A, B) returns
\* canSnap = true with a position when some edge of A and some edge of B are
\* compatible, and canSnap = false with snapPosition = null when none are.
C11_SnapIffCompatiblePair ==
    call.op = "canTilesSnap" =>
        LET edges1 == getShapeEdges(call.tile1)
            edges2 == getShapeEdges(call.tile2)
        IN  IF \E i \in 1..Len(edges1), j \in 1..Len(edges2) :
                   areEdgesCompatible(edges1[i], edges2[j])
            THEN call.result.canSnap /\ call.result.snapPosition # Null
            ELSE ~call.result.canSnap /\ call.result.snapPosition = Null

\* C11's case: a square and a hexagon 60 units apart, no pair of their edges
\* compatible, and canTilesSnap returning canSnap = false as its result.
C11_Witness ==
    /\ call.op = "canTilesSnap"
    /\ call.tile1.shape = "square" /\ call.tile2.shape = "hexagon"
    /\ call.tile1.x = Fx(360) /\ call.tile1.y = Fx(300)
    /\ ~call.result.canSnap
    /\ call.result.snapPosition = Null

\* C12 (two squares in a row): for unrotated squares A and B on one
\* horizontal line, B to the right with the midpoints of A's right edge and B's
\* left edge at most 40 apart, canTilesSnap(A, B) returns canSnap = true, the
\* winning pair is A's right edge (the 2nd) and B's left edge (the 4th), y is
\* unchanged and x is A's x plus the midpoint offset less the 1-unit push; for
\* A at (300, 300) and B at (360, 300) x is within 1 unit of 310 and y is 300.
C12_SquaresInARow ==
    ( /\ call.op = "canTilesSnap"
      /\ call.tile1.shape = "square" /\ call.tile2.shape = "square"
      /\ call.tile1.rotation = 0 /\ call.tile2.rotation = 0
      /\ call.tile1.y = call.tile2.y
      /\ Abs((call.tile2.x - Fx(25)) - (call.tile1.x + Fx(25))) <= Fx(40) ) =>
        LET bestSnap == BestSnap(call.tile1, call.tile2)
        IN  /\ call.result.canSnap
            /\ bestSnap.i = 2 /\ bestSnap.j = 4
            /\ call.result.snapPosition.y = call.tile1.y
            /\ call.result.snapPosition.x = call.tile2.x - Fx(50) - Fx(1)
            /\ (call.tile1.x = Fx(300) /\ call.tile2.x = Fx(360)) =>
                  /\ Abs(call.result.snapPosition.x - Fx(310)) <= Fx(1)
                  /\ call.result.snapPosition.y = Fx(300)

\* C12's case: A at (300, 300) and B at (360, 300), A sent to (309, 300).
C12_Witness ==
    /\ call.op = "canTilesSnap"
    /\ call.tile1.shape = "square" /\ call.tile2.shape = "square"
    /\ call.tile1.rotation = 0 /\ call.tile2.rotation = 0
    /\ call.tile1.x = Fx(300) /\ call.tile1.y = Fx(300)
    /\ call.tile2.x = Fx(360) /\ call.tile2.y = Fx(300)
    /\ call.result.canSnap
    /\ call.result.snapPosition = Point(Fx(309), Fx(300))

\* C14 (degenerate edges are skipped): when consecutive vertices of a tile
\* coincide, getShapeEdges returns no edge for them (no edge of length 0, no
\* normal from a division by zero) and returns the edges of the other pairs.
C14_DegenerateEdgesSkipped ==
    call.op = "edgeLoop" =>
        LET n == Len(call.vertices)
            proper == { i \in 1..n : call.vertices[i] # call.vertices[(i % n) + 1] }
        IN  /\ Len(call.result) = Cardinality(proper)
            /\ \A k \in 1..Len(call.result) :
                  call.result[k].length > 0 /\ ~call.result[k].nan

\* The compatible pairs <<i, j>> of the i-th edge of tile1 and the j-th edge of
\* tile2.
CompatiblePairs(tile1, tile2) ==
    LET edges1 == getShapeEdges(tile1)
        edges2 == getShapeEdges(tile2)
    IN  { p \in (1..Len(edges1)) \X (1..Len(edges2)) :
            areEdgesCompatible(edges1[p[1]], edges2[p[2]]) }

\* The midpoint-to-midpoint distance of the pair p.
PairDistance(tile1, tile2, p) ==
    MidDistance(getShapeEdges(tile1)[p[1]], getShapeEdges(tile2)[p[2]])

\* p comes before q in the loops: tile1's edges outside, tile2's inside.
EncounteredBefore(p, q) == p[1] < q[1] \/ (p[1] = q[1] /\ p[2] < q[2])

\* C18 (nearest pair, first on a tie): canTilesSnap snaps by the compatible
\* pair whose midpoints are nearest; between pairs at exactly the same
\* distance, by the one met first, tile1's edges in the outer loop and tile2's
\* in the inner one, each in vertex order.  No compatible pair: no snap.
C18_NearestPairFirstOnTie ==
    call.op = "canTilesSnap" =>
        LET pairs == CompatiblePairs(call.tile1, call.tile2)
            best == BestSnap(call.tile1, call.tile2)
        IN  IF pairs = { } THEN best = Null /\ ~call.result.canSnap
            ELSE /\ best # Null
                 /\ << best.i, best.j >> \in pairs
                 /\ best.edge1 = getShapeEdges(call.tile1)[best.i]
                 /\ best.edge2 = getShapeEdges(call.tile2)[best.j]
                 /\ \A p \in pairs :
                      LET d == PairDistance(call.tile1, call.tile2, p)
                      IN  /\ d >= best.distance
                          /\ d = best.distance =>
                               ~EncounteredBefore(p, << best.i, best.j >>)
                 /\ call.result = SnapResult(call.tile1, best)

\* C18's case: two compatible pairs at the same smallest distance, and the
\* snap made by the one met first.
C18_Witness ==
    /\ call.op = "canTilesSnap"
    /\ call.result.canSnap
    /\ LET pairs == CompatiblePairs(call.tile1, call.tile2)
           best == BestSnap(call.tile1, call.tile2)
       IN  \E p \in pairs :
             /\ PairDistance(call.tile1, call.tile2, p) = best.distance
             /\ EncounteredBefore(<< best.i, best.j >>, p)
             /\ SnapResult(call.tile1,
                           [edge1 |-> getShapeEdges(call.tile1)[p[1]],
                            edge2 |-> getShapeEdges(call.tile2)[p[2]],
                            distance |-> best.distance, i |-> p[1], j |-> p[2]])
                  # call.result

\* The four conditions on two edges, as comparisons of numbers: a comparison
\* with the NaN of a zero-length edge's normal or direction does not hold.
FourGates(edge1, edge2) ==
    /\ Abs(edge1.length - edge2.length) <= Fx(2)
    /\ Hypot(edge1.midpoint.x - edge2.midpoint.x,
             edge1.midpoint.y - edge2.midpoint.y) <= Fx(40)
    /\ ~edge1.nan /\ ~edge2.nan
    /\ edge1.normal.x * edge2.normal.x + edge1.normal.y * edge2.normal.y <= -900000
    /\ Abs(EdgeDir(edge1).x * EdgeDir(edge2).x
           + EdgeDir(edge1).y * EdgeDir(edge2).y) >= 900000

\* C20 (the four gates): areEdgesCompatible(e1, e2) is true exactly when the
\* lengths differ by at most 2, the midpoints are at most 40 apart, the dot
\* product of the normals is at most -0.9 and the absolute dot product of the
\* normalised directions is at least 0.9, the thresholds included.
C20_FourGatesExactly ==
    /\ call.op = "areEdgesCompatible" =>
         \A i \in 1..Len(call.result) : \A j \in 1..Len(call.result[i]) :
             call.result[i][j] = FourGates(getShapeEdges(call.tile1)[i],
                                           getShapeEdges(call.tile2)[j])
    /\ call.op = "areEdgesCompatibleFar" =>
         \A i \in 1..Len(call.result) : \A j \in 1..Len(call.result[i]) :
             call.result[i][j] = FourGates(EdgeLoop(call.tile1, call.vertices)[i],
                                           EdgeLoop(call.tile1, call.vertices)[j])

\* The pairs <<i, j>> of an edge of tile1 and an edge of tile2 that pass the
\* length, proximity and opposing-normal gates.
ThreeGatePairs(tile1, tile2) ==
    LET edges1 == getShapeEdges(tile1)
        edges2 == getShapeEdges(tile2)
    IN  { p \in (1..Len(edges1)) \X (1..Len(edges2)) :
            /\ LengthGate(edges1[p[1]], edges2[p[2]])
            /\ DistanceGate(edges1[p[1]], edges2[p[2]])
            /\ NormalGate(edges1[p[1]], edges2[p[2]]) }

CentreToMidpoint(tile, edge) == Hypot(edge.midpoint.x - tile.x, edge.midpoint.y - tile.y)

\* C23 (centre-to-edge distances): a suggestion's centre is the edge's midpoint
\* moved along the edge's normal by the suggested shape's centerToEdgeDistance
\* (triangle 20, square 25, hexagon 43.3, diamond 30), and that distance is the
\* distance from the shape's centre to the midpoints of its edges as
\* getShapeEdges gives them (to a fifth of a unit, for the rounding of the
\* rotated vertices).
C23_CentreToEdgeDistances ==
    call.op = "getShapeEdges" =>
        \A k \in 1..Len(call.result) :
            /\ \A e \in 0..2, inBand \in BOOLEAN :
                 LET c == Candidate(call.result[k], e, inBand)
                     d == CASE c.shape = "triangle" -> Fx(20)
                            [] c.shape = "square" -> Fx(25)
                            [] c.shape = "hexagon" -> 433
                            [] c.shape = "diamond" -> Fx(30)
                 IN  /\ c.x = call.result[k].midpoint.x
                               + RoundDiv(call.result[k].normal.x * d, 1000)
                     /\ c.y = call.result[k].midpoint.y
                               + RoundDiv(call.result[k].normal.y * d, 1000)
            /\ Abs(CentreToMidpoint(call.tile1, call.result[k])
                   - CenterToEdgeDistance(call.tile1.shape)) <= 2

\* The number of vertices of a shape.
VertexCount(shape) ==
    CASE shape = "triangle" -> 3
      [] shape = "square" -> 4
      [] shape = "hexagon" -> 6
      [] shape = "diamond" -> 4

\* The edges run through the vertices in order: as many edges as vertices,
\* the i-th from the i-th vertex to the next one, the last back to the first.
RunsThrough(edges, vertices) ==
    /\ Len(edges) = Len(vertices)
    /\ \A i \in 1..Len(vertices) :
         /\ edges[i].start = vertices[i]
         /\ edges[i].end = vertices[IF i = Len(vertices) THEN 1 ELSE i + 1]

C17_EdgeCount ==
    /\ call.op = "getShapeEdges" =>
         /\ Len(call.result) = VertexCount(call.tile1.shape)
         /\ RunsThrough(call.result,
                        [i \in 1..VertexCount(call.tile1.shape) |->
                           Transform(call.tile1, LocalVertices(call.tile1.shape)[i])])
    /\ call.op = "edgeLoop" =>
         /\ Len(call.result) = VertexCount(call.tile1.shape)
         /\ RunsThrough(call.result, call.vertices)

\* C17's case: the six edges of a hexagon rotated by 45 degrees, the sixth
\* ending where the first starts.
C17_Witness ==
    /\ call.op = "getShapeEdges"
    /\ call.tile1.shape = "hexagon"
    /\ call.tile1.rotation = 45
    /\ Len(call.result) = 6
    /\ call.result[6].end = call.result[1].start
    /\ call.result[6].start # call.result[1].start

\* The dot product of an edge's normal with the vector from its midpoint to the
\* centre of the tile.
InwardDot(tile, edge) ==
    edge.normal.x * (tile.x - edge.midpoint.x) + edge.normal.y * (tile.y - edge.midpoint.y)

C5_SelfIncompatibility ==
    ( /\ call.op = "areEdgesCompatible"
      /\ call.tile1 = call.tile2
      /\ call.tile1.x = 0 /\ call.tile1.y = 0 /\ call.tile1.rotation = 0 ) =>
        \A i \in 1..Len(call.result), j \in 1..Len(call.result) :
            i # j => ~call.result[i][j]

\* C5's case: the diamond at the origin, whose opposite edges face away from
\* each other with midpoints 42.4 units apart.
C5_Witness ==
    /\ call.op = "areEdgesCompatible"
    /\ call.tile1 = call.tile2
    /\ call.tile1.x = 0 /\ call.tile1.y = 0 /\ call.tile1.rotation = 0
    /\ call.tile1.shape = "diamond"
    /\ LET edges == getShapeEdges(call.tile1)
       IN  MidDistance(edges[1], edges[3]) = 424

\* ------------------------------------------------------------- claims on the mirrors

\* The positions of the tiles of a sequence.
Positions(seq) == { Point(seq[i].x, seq[i].y) : i \in 1..Len(seq) }

\* C6 (radial completeness): in radial mode createSymmetryMirrors returns
\* exactly 3 tiles, and the positions of the primary and the three are closed
\* under x -> 600 - x and under y -> 600 - y.
C6_RadialCompleteness ==
    (call.op = "createSymmetryMirrors" /\ call.mode = "radial") =>
        /\ Len(call.result) = 3
        /\ LET four == Positions(<< call.tile1 >> \o call.result)
           IN  \A p \in four : /\ Point(Fx(600) - p.x, p.y) \in four
                               /\ Point(p.x, Fx(600) - p.y) \in four

\* C6's case: the radial mirrors of a primary off both axes, four positions.
C6_Witness ==
    /\ call.op = "createSymmetryMirrors" /\ call.mode = "radial"
    /\ call.tile1.x = 3510 /\ call.tile1.y = 3005
    /\ Cardinality(Positions(<< call.tile1 >> \o call.result)) = 4

C8_MirrorsPerMode ==
    call.op = "createSymmetryMirrors" =>
        /\ call.mode = "none" => call.result = << >>
        /\ call.mode = "horizontal" =>
              /\ Len(call.result) = 1
              /\ call.result[1].x = Fx(600) - call.tile1.x
              /\ call.result[1].y = call.tile1.y
        /\ call.mode = "vertical" =>
              /\ Len(call.result) = 1
              /\ call.result[1].x = call.tile1.x
              /\ call.result[1].y = Fx(600) - call.tile1.y
        /\ \A i \in 1..Len(call.result) :
              /\ call.result[i].shape = call.tile1.shape
              /\ call.result[i].rotation = call.tile1.rotation
              /\ call.result[i].color = call.tile1.color
              /\ call.result[i].isSymmetryMirror
              /\ call.result[i].originalId = call.tile1.id

\* C8's case: the tile at (250, 250) in horizontal mode, one mirror at (350, 250).
C8_Witness ==
    /\ call.op = "createSymmetryMirrors" /\ call.mode = "horizontal"
    /\ call.tile1.x = Fx(250) /\ call.tile1.y = Fx(250)
    /\ Len(call.result) = 1
    /\ call.result[1].x = Fx(350) /\ call.result[1].y = Fx(250)

\* C9 (fresh identifiers): every tile createSymmetryMirrors returns has an id
\* different from the primary's and from that of every other tile it returns.
C9_FreshIdentifiers ==
    call.op = "createSymmetryMirrors" =>
        /\ \A i \in 1..Len(call.result) : call.result[i].id # call.tile1.id
        /\ \A i \in 1..Len(call.result), j \in 1..Len(call.result) :
              i # j => call.result[i].id # call.result[j].id

\* C10 (mirrors never spawn mirrors): whatever has been added, dragged, moved
\* by key, rotated, duplicated, deleted and filled, no tile's originalId is the
\* id of a tile that is itself a mirror.
C10_MirrorsNeverSpawnMirrors ==
    \A i \in 1..Len(tiles), j \in 1..Len(tiles) :
        tiles[i].originalId # NoId
        => ~(tiles[j].id = tiles[i].originalId /\ tiles[j].isSymmetryMirror)

====
